---- MODULE Spec2Model ----
(***************************************************************************)
(* Model of md_yaml_converter.py: the Markdown-table <-> YAML/JSON          *)
(* converter.  Strings are sequences of one-character strings, so that     *)
(* strip / split / join / startswith are computed as Python computes them. *)
(* Python values carry their type: [t, s, items].                          *)
(***************************************************************************)
EXTENDS Integers, Sequences, FiniteSets, TLC

----------------------------------------------------------------------------
(* Characters and Python str methods.                                      *)

NL == "\n"
BS == "\\"
PIPE == "|"

HT == "\t"
CR == "\r"
FF == "\f"
VT == ""
FS == ""
GS == ""
RS == ""
US == ""

NEL == ""
NBSP == " "
DEL == ""

\* str.strip() with no argument strips whitespace: the characters up to U+00FF
\* for which str.isspace() holds
Whitespace == {" ", NL, HT, CR, FF, VT, FS, GS, RS, US, NEL, NBSP}

\* the printable ASCII characters (without U+0060, which no string here can hold)
AsciiPrintable ==
    {
      " ", "!", "\"", "#", "$", "%", "&", "'", "(", ")", "*", "+", ",", "-", ".", "/", "0",
      "1", "2", "3", "4", "5", "6", "7", "8", "9", ":", ";", "<", "=", ">", "?", "@", "A",
      "B", "C", "D", "E", "F", "G", "H", "I", "J", "K", "L", "M", "N", "O", "P", "Q", "R",
      "S", "T", "U", "V", "W", "X", "Y", "Z", "[", "\\", "]", "^", "_", "a", "b", "c",
      "d", "e", "f", "g", "h", "i", "j", "k", "l", "m", "n", "o", "p", "q", "r", "s", "t",
      "u", "v", "w", "x", "y", "z", "{", "|", "}", "~" }

Upper ==
    <<"A", "B", "C", "D", "E", "F", "G", "H", "I", "J", "K", "L", "M",
      "N", "O", "P", "Q", "R", "S", "T", "U", "V", "W", "X", "Y", "Z",
      "À", "Á", "Â", "Ã", "Ä", "Å", "Æ", "Ç", "È", "É", "Ê", "Ë", "Ì", "Í", "Î", "Ï", "Ð",
      "Ñ", "Ò", "Ó", "Ô", "Õ", "Ö", "Ø", "Ù", "Ú", "Û", "Ü", "Ý", "Þ">>
Lower ==
    <<"a", "b", "c", "d", "e", "f", "g", "h", "i", "j", "k", "l", "m",
      "n", "o", "p", "q", "r", "s", "t", "u", "v", "w", "x", "y", "z",
      "à", "á", "â", "ã", "ä", "å", "æ", "ç", "è", "é", "ê", "ë", "ì", "í", "î", "ï", "ð",
      "ñ", "ò", "ó", "ô", "õ", "ö", "ø", "ù", "ú", "û", "ü", "ý", "þ">>

\* U+00A1..U+00FF without the capitals: str.lower() and str.strip() leave them
Latin1Rest ==
    {
      "¡", "¢", "£", "¤", "¥", "¦", "§", "¨", "©", "ª", "«", "¬", "­", "®", "¯", "°", "±",
      "²", "³", "´", "µ", "¶", "·", "¸", "¹", "º", "»", "¼", "½", "¾", "¿", "×", "ß", "à",
      "á", "â", "ã", "ä", "å", "æ", "ç", "è", "é", "ê", "ë", "ì", "í", "î", "ï", "ð", "ñ",
      "ò", "ó", "ô", "õ", "ö", "÷", "ø", "ù", "ú", "û", "ü", "ý", "þ", "ÿ" }

\* The characters the string operations are defined on.  str.isspace() and
\* str.lower() are tables over all of Unicode; the tables here end at U+00FF,
\* and an operation that consults them has no value on any other character.
Alphabet ==
    AsciiPrintable \cup Whitespace \cup {DEL} \cup {Upper[i] : i \in 1..Len(Upper)}
        \cup Latin1Rest

RECURSIVE lstrip(_, _)
\* str.lstrip(chars): drop leading characters while they are in the set chars
lstrip(s, chars) ==
    IF s = <<>> THEN <<>>
    ELSE IF Head(s) \in chars THEN lstrip(Tail(s), chars) ELSE s

RECURSIVE rstrip(_, _)
rstrip(s, chars) ==
    IF s = <<>> THEN <<>>
    ELSE IF s[Len(s)] \in chars THEN rstrip(SubSeq(s, 1, Len(s) - 1), chars) ELSE s

\* str.strip(chars)
strip(s, chars) == rstrip(lstrip(s, chars), chars)

\* str.strip() with no argument
strip_space(s) ==
    CASE \A i \in 1..Len(s) : s[i] \in Alphabet -> strip(s, Whitespace)

\* str.startswith(prefix)
startswith(s, prefix) ==
    /\ Len(s) >= Len(prefix)
    /\ SubSeq(s, 1, Len(prefix)) = prefix

RECURSIVE split(_, _)
\* str.split(sep) for a non-empty separator: always at least one piece
split(s, sep) ==
    IF \E i \in 1..(Len(s) - Len(sep) + 1) : SubSeq(s, i, i + Len(sep) - 1) = sep
    THEN LET i == CHOOSE k \in 1..(Len(s) - Len(sep) + 1) :
                    /\ SubSeq(s, k, k + Len(sep) - 1) = sep
                    /\ \A j \in 1..(k - 1) : SubSeq(s, j, j + Len(sep) - 1) # sep
         IN  <<SubSeq(s, 1, i - 1)>> \o split(SubSeq(s, i + Len(sep), Len(s)), sep)
    ELSE <<s>>

RECURSIVE join(_, _)
\* sep.join(parts)
join(sep, parts) ==
    IF parts = <<>> THEN <<>>
    ELSE IF Len(parts) = 1 THEN parts[1]
    ELSE parts[1] \o sep \o join(sep, Tail(parts))

\* [f(x) for x in xs]
Map(xs, F(_)) == [i \in 1..Len(xs) |-> F(xs[i])]

\* [x for x in xs if P(x)]
Filter(xs, P(_)) == SelectSeq(xs, P)

----------------------------------------------------------------------------
(* Python values: t is the type, s the text of a scalar, items the         *)
(* elements of a list or the (k, val) entries of a dict in insertion order.*)

PyStr(s) == [t |-> "str", s |-> s, items |-> <<>>]
PyList(xs) == [t |-> "list", s |-> <<>>, items |-> xs]
PyDict(entries) == [t |-> "dict", s |-> <<>>, items |-> entries]
PyNone == [t |-> "none", s |-> <<>>, items |-> <<>>]
PyInt(digits) == [t |-> "int", s |-> digits, items |-> <<>>]

\* bool(value), as used by `not records`
truthy(v) ==
    CASE v.t = "none" -> FALSE
      [] v.t = "str"  -> v.s # <<>>
      [] v.t = "int"  -> v.s # <<"0">>
      [] v.t = "list" -> v.items # <<>>
      [] v.t = "dict" -> v.items # <<>>

\* str(value) for the scalar types
str(v) ==
    CASE v.t = "str"  -> v.s
      [] v.t = "int"  -> v.s
      [] v.t = "none" -> <<"N", "o", "n", "e">>

\* list(d.keys())
keys(d) == [i \in 1..Len(d.items) |-> d.items[i].k]

\* d.get(k, default)
dict_get(d, k, default) ==
    IF \E i \in 1..Len(d.items) : d.items[i].k = k
    THEN d.items[CHOOSE i \in 1..Len(d.items) : d.items[i].k = k].val
    ELSE default

\* d[k] = val on the entry list: overwrite in place, else append
dict_set(entries, k, val) ==
    IF \E i \in 1..Len(entries) : entries[i].k = k
    THEN [i \in 1..Len(entries) |->
            IF entries[i].k = k THEN [k |-> k, val |-> val] ELSE entries[i]]
    ELSE Append(entries, [k |-> k, val |-> val])

RECURSIVE zip_entries(_, _, _)
zip_entries(ks, vals, n) ==
    IF n = 0 THEN <<>>
    ELSE dict_set(zip_entries(ks, vals, n - 1), ks[n], vals[n])

Min(a, b) == IF a <= b THEN a ELSE b

\* dict(zip(ks, vals)): pairs positionally, stops at the shorter sequence
dict_zip(ks, vals) == PyDict(zip_entries(ks, vals, Min(Len(ks), Len(vals))))

----------------------------------------------------------------------------
(* The table codec.                                                        *)

Bullet == <<"-", " ">>
EscapedNewline == <<BS, "n">>

\* line 93: line.lstrip('- ').strip()
strip_bullet(line) == strip_space(lstrip(line, {"-", " "}))

\* line 93: `if line.strip()`
nonblank(line) == strip_space(line) # <<>>

\* parse_markdown_field, lines 83-94
parse_markdown_field(value) ==
    IF startswith(value, Bullet)
    THEN PyList(Map(Filter(split(value, EscapedNewline), nonblank),
                    LAMBDA line : PyStr(strip_bullet(line))))
    ELSE PyStr(value)

\* format_markdown_cell, lines 131-142
format_markdown_cell(value) ==
    IF value.t = "list"
    THEN join(EscapedNewline, Map(value.items, LAMBDA v : Bullet \o str(v)))
    ELSE str(value)

\* line.strip('|').split('|'), lines 36, 38, 60, 64
raw_cells(line) == split(strip(line, {PIPE}), <<PIPE>>)

\* [c.strip() for c in line.strip('|').split('|')], lines 60, 64
cells(line) == Map(raw_cells(line), strip_space)

RECURSIVE universal_newlines(_)
\* line 54: open(md_path, 'r') reads in text mode: "\r\n" and a lone "\r"
\* both reach the program as "\n"
universal_newlines(text) ==
    IF text = <<>> THEN <<>>
    ELSE IF Head(text) = CR
         THEN IF Len(text) >= 2 /\ text[2] = NL
              THEN <<NL>> \o universal_newlines(SubSeq(text, 3, Len(text)))
              ELSE <<NL>> \o universal_newlines(Tail(text))
         ELSE <<Head(text)>> \o universal_newlines(Tail(text))

\* line 55: [line.strip() for line in f if line.strip()]
read_lines(text) ==
    Map(Filter(split(universal_newlines(text), <<NL>>), nonblank), strip_space)

\* a logger call
LogEntry(level, msg, row, got, expected) ==
    [level |-> level, msg |-> msg, row |-> row, got |-> got, expected |-> expected]

\* line 37: enumerate(lines[2:], start=3)
FirstRowNumber == 3

\* a slip in line 39: only rows shorter than the header are reported
row_warnings_Mut(lines) ==
    LET nh == Len(raw_cells(lines[1]))
        idx == Filter([k \in 1..(Len(lines) - 2) |-> k],
                      LAMBDA k : Len(raw_cells(lines[k + 2])) < nh)
    IN  [j \in 1..Len(idx) |->
            LogEntry("WARNING", "row_fields", idx[j] + FirstRowNumber - 1,
                     Len(raw_cells(lines[idx[j] + 2])), nh)]

\* validate_markdown_table, lines 36-40: one warning per mismatched row
row_warnings(lines) ==
    LET nh == Len(raw_cells(lines[1]))
        idx == Filter([k \in 1..(Len(lines) - 2) |-> k],
                      LAMBDA k : Len(raw_cells(lines[k + 2])) # nh)
    IN  [j \in 1..Len(idx) |->
            LogEntry("WARNING", "row_fields", idx[j] + FirstRowNumber - 1,
                     Len(raw_cells(lines[idx[j] + 2])), nh)]

\* line 32: a table needs this many non-blank lines
MinTableLines == 3

\* a slip in line 32: a header and a separator alone pass
validate_markdown_table_Mut(lines) == Len(lines) >= MinTableLines - 1

\* validate_markdown_table, lines 30-41: the returned bool
validate_markdown_table(lines) == ~(Len(lines) < MinTableLines)

\* validate_markdown_table, lines 30-41: what it logs
validate_log(lines) ==
    IF Len(lines) < MinTableLines
    THEN <<LogEntry("ERROR", "too_short", 0, 0, 0)>>
    ELSE row_warnings(lines)

\* markdown_to_yaml, line 65
parse_row(headers, line) == dict_zip(headers, Map(cells(line), parse_markdown_field))

\* markdown_to_yaml, lines 60-66
parse_records(lines) ==
    LET headers == cells(lines[1])
    IN  [k \in 1..(Len(lines) - 2) |-> parse_row(headers, lines[k + 2])]

\* yaml_to_markdown, line 114: the header row, then one formatted row per record
format_rows(headers, records) ==
    <<headers>> \o
    [i \in 1..Len(records) |->
        Map(headers, LAMBDA h : format_markdown_cell(dict_get(records[i], h, PyStr(<<>>))))]

CellSep == <<" ", PIPE, " ">>
RowOpen == <<PIPE, " ">>
RowClose == <<" ", PIPE, NL>>

\* lines 121, 124: '| ' + ' | '.join(row) + ' |\n'
table_line(row) == RowOpen \o join(CellSep, row) \o RowClose

\* line 122: '|:' + ':|:'.join(['-' for _ in headers]) + ':|\n'
separator_line(headers) ==
    <<PIPE, ":">> \o join(<<":", PIPE, ":">>, Map(headers, LAMBDA h : <<"-">>))
        \o <<":", PIPE, NL>>

\* yaml_to_markdown, lines 120-124: everything written to the output file:
\* the header line, the separator line, then rows[1:]
table_text(headers, rows) ==
    table_line(headers) \o separator_line(headers)
        \o join(<<>>, Map(Tail(rows), table_line))

----------------------------------------------------------------------------
(* The router: detect_mode and default_output_filename.                    *)

\* str.lower() on one character: a capital has its small letter, every other
\* character of the alphabet is left as it is
lower_char(c) ==
    CASE (\E i \in 1..Len(Upper) : Upper[i] = c) ->
            Lower[CHOOSE i \in 1..Len(Upper) : Upper[i] = c]
      [] (c \in Alphabet /\ \A i \in 1..Len(Upper) : Upper[i] # c) -> c

lower(s) == Map(s, lower_char)

\* str.rfind(c), 1-based, 0 when absent
rfind(s, c) ==
    IF \E i \in 1..Len(s) : s[i] = c
    THEN CHOOSE i \in 1..Len(s) : s[i] = c /\ \A j \in (i + 1)..Len(s) : s[j] # c
    ELSE 0

\* os.path.splitext: the extension starts at the last dot of the last path
\* component, unless only dots precede it in that component
splitext(p) ==
    LET sepIndex == rfind(p, "/")
        dotIndex == rfind(p, ".")
    IN  IF /\ dotIndex > sepIndex
           /\ \E i \in (sepIndex + 1)..(dotIndex - 1) : p[i] # "."
        THEN <<SubSeq(p, 1, dotIndex - 1), SubSeq(p, dotIndex, Len(p))>>
        ELSE <<p, <<>> >>

ExtMd == <<".", "m", "d">>
ExtMarkdown == <<".", "m", "a", "r", "k", "d", "o", "w", "n">>
ExtYml == <<".", "y", "m", "l">>
ExtYaml == <<".", "y", "a", "m", "l">>
FormatYaml == <<"y", "a", "m", "l">>
FormatJson == <<"j", "s", "o", "n">>

\* a slip in line 153: the extension is compared as typed, without .lower()
detect_mode_Mut(file_path) ==
    LET ext == splitext(file_path)[2]
    IN  IF ext \in {ExtMd, ExtMarkdown} THEN "to-yaml"
        ELSE IF ext \in {ExtYml, ExtYaml} THEN "to-md"
        ELSE "exit"

\* detect_mode, lines 144-160; "exit" stands for the sys.exit(1) branch
detect_mode(file_path) ==
    LET ext == lower(splitext(file_path)[2])
    IN  IF ext \in {ExtMd, ExtMarkdown} THEN "to-yaml"
        ELSE IF ext \in {ExtYml, ExtYaml} THEN "to-md"
        ELSE "exit"

\* a slip in lines 173-174: the new extension is appended to the whole input
default_output_filename_Mut(input_file, mode, output_format) ==
    IF mode = "to-yaml" THEN input_file \o <<".">> \o output_format
    ELSE input_file \o ExtMd

\* default_output_filename, lines 162-174
default_output_filename(input_file, mode, output_format) ==
    LET base == splitext(input_file)[1]
    IN  IF mode = "to-yaml" THEN base \o <<".">> \o output_format
        ELSE base \o ExtMd

----------------------------------------------------------------------------
(* The process: one invocation of main(), step by step.                    *)

VARIABLES
    pc,           \* the statement main() is at
    argv,         \* parsed command line: input, output, format, dry_run
    mode,         \* detect_mode's result
    output_file,  \* the output path main() settled on
    fs,           \* the file system: path -> file content
    lines,        \* markdown_to_yaml: the stripped non-blank lines
    records,      \* the record list (a Python value)
    rows,         \* yaml_to_markdown: the formatted rows
    log,          \* what the logger was given, in order
    opens,        \* every open() call of this invocation, in order
    exc,          \* the exception in flight, "" when none
    exit_code,    \* the process's exit status, -1 while it runs
    source        \* on a second invocation, the records the table was written from

vars == <<pc, argv, mode, output_file, fs, lines, records, rows, log, opens, exc,
          exit_code, source>>

\* a file read as text: what open(path, 'r') yields
TextFile(text) == [kind |-> "text", text |-> text]

\* a file written by yaml.dump / json.dump: the value dumped, under its format
\* (the library's rendering of the value is not modelled)
Dumped(format, data) == [kind |-> format, data |-> data]

Open(path, how, ok) == [path |-> path, how |-> how, ok |-> ok]
Info(msg) == LogEntry("INFO", msg, 0, 0, 0)

\* main, line 185: detect_mode on a supported extension
Main_DetectMode ==
    /\ pc = "main"
    /\ detect_mode(argv.input) # "exit"
    /\ mode' = detect_mode(argv.input)
    /\ pc' = "main_output"
    /\ UNCHANGED <<argv, output_file, fs, lines, records, rows, log, opens, exc,
                   exit_code, source>>

\* detect_mode, lines 158-160: logger.error, sys.exit(1)
Main_Unsupported ==
    /\ pc = "main"
    /\ detect_mode(argv.input) = "exit"
    /\ log' = Append(log, LogEntry("ERROR", "unsupported_extension", 0, 0, 0))
    /\ exit_code' = 1
    /\ pc' = "exited"
    /\ UNCHANGED <<argv, mode, output_file, fs, lines, records, rows, opens, exc, source>>

\* main, lines 186-193: args.output or the default, then dispatch on mode
Main_Output ==
    /\ pc = "main_output"
    /\ output_file' = IF argv.output # <<>> THEN argv.output
                      ELSE default_output_filename(argv.input, mode, argv.format)
    /\ pc' = IF mode = "to-yaml" THEN "m2y_read" ELSE "y2m_read"
    /\ UNCHANGED <<argv, mode, fs, lines, records, rows, log, opens, exc, exit_code,
                   source>>

\* markdown_to_yaml, lines 52-54: open(md_path, 'r') fails on a path that exists
\* (a directory, a file without read permission)
M2Y_ReadFails ==
    /\ pc = "m2y_read"
    /\ argv.input \in DOMAIN fs
    /\ log' = Append(log, Info("converting"))
    /\ opens' = Append(opens, Open(argv.input, "r", FALSE))
    /\ exc' = "OSError"
    /\ pc' = "m2y_except"
    /\ UNCHANGED <<argv, mode, output_file, fs, lines, records, rows, exit_code, source>>

\* markdown_to_yaml, lines 52-55: open the input and read its lines
M2Y_Read ==
    /\ pc = "m2y_read"
    /\ IF argv.input \in DOMAIN fs
       THEN /\ opens' = Append(opens, Open(argv.input, "r", TRUE))
            /\ lines' = read_lines(fs[argv.input].text)
            /\ pc' = "m2y_validate"
            /\ exc' = exc
       ELSE /\ opens' = Append(opens, Open(argv.input, "r", FALSE))
            /\ exc' = "FileNotFoundError"
            /\ pc' = "m2y_except"
            /\ lines' = lines
    /\ log' = Append(log, Info("converting"))
    /\ UNCHANGED <<argv, mode, output_file, fs, records, rows, exit_code, source>>

\* a slip in lines 57-58: a table that fails validation raises instead of returning
M2Y_Validate_Mut ==
    /\ pc = "m2y_validate"
    /\ log' = log \o validate_log(lines)
    /\ IF validate_markdown_table(lines)
       THEN /\ pc' = "m2y_parse"
            /\ exc' = exc
       ELSE /\ pc' = "m2y_except"
            /\ exc' = "ValueError"
    /\ UNCHANGED <<argv, mode, output_file, fs, lines, records, rows, opens, exit_code,
                   source>>

\* markdown_to_yaml, lines 57-58: validate, return when it says no
M2Y_Validate ==
    /\ pc = "m2y_validate"
    /\ log' = log \o validate_log(lines)
    /\ IF validate_markdown_table(lines)
       THEN /\ pc' = "m2y_parse"
            /\ exit_code' = exit_code
       ELSE /\ pc' = "done"
            /\ exit_code' = 0
    /\ UNCHANGED <<argv, mode, output_file, fs, lines, records, rows, opens, exc, source>>

\* markdown_to_yaml, lines 60-66: build one record per data line
M2Y_Parse ==
    /\ pc = "m2y_parse"
    /\ records' = PyList(parse_records(lines))
    /\ pc' = "m2y_dry"
    /\ UNCHANGED <<argv, mode, output_file, fs, lines, rows, log, opens, exc, exit_code,
                   source>>

\* a slip in lines 68-70: the dry-run return is missing
M2Y_DryRun_Mut ==
    /\ pc = "m2y_dry"
    /\ pc' = "m2y_write"
    /\ UNCHANGED <<argv, mode, output_file, fs, lines, records, rows, log, opens, exc,
                   exit_code, source>>

\* markdown_to_yaml, lines 68-70: the dry-run return
M2Y_DryRun ==
    /\ pc = "m2y_dry"
    /\ IF argv.dry_run
       THEN /\ log' = Append(log, Info("dry_run"))
            /\ pc' = "done"
            /\ exit_code' = 0
       ELSE /\ pc' = "m2y_write"
            /\ UNCHANGED <<log, exit_code>>
    /\ UNCHANGED <<argv, mode, output_file, fs, lines, records, rows, opens, exc, source>>

\* markdown_to_yaml, lines 72-78: open the output for writing and dump
M2Y_Write ==
    /\ pc = "m2y_write"
    /\ opens' = Append(opens, Open(output_file, "w", TRUE))
    /\ fs' = (output_file :> Dumped(argv.format, records)) @@ fs
    /\ log' = Append(log, Info("wrote"))
    /\ pc' = "done"
    /\ exit_code' = 0
    /\ UNCHANGED <<argv, mode, output_file, lines, records, rows, exc, source>>

\* markdown_to_yaml, line 72: open(output_path, 'w') fails (unwritable path)
M2Y_WriteFails ==
    /\ pc = "m2y_write"
    /\ opens' = Append(opens, Open(output_file, "w", FALSE))
    /\ exc' = "OSError"
    /\ pc' = "m2y_except"
    /\ UNCHANGED <<argv, mode, output_file, fs, lines, records, rows, log, exit_code,
                   source>>

\* markdown_to_yaml, lines 79-81: log_exception, raise; the process dies non-zero
M2Y_Except ==
    /\ pc = "m2y_except"
    /\ log' = Append(log, LogEntry("ERROR", "failed_conversion", 0, 0, 0))
    /\ pc' = "raised"
    /\ exit_code' = 1
    /\ UNCHANGED <<argv, mode, output_file, fs, lines, records, rows, opens, exc, source>>

\* yaml_to_markdown, lines 113-114, on a truthy value: the exception raised,
\* "" when none.  records[0] fails on a dict (its keys are strings here) and on
\* an int; records[0].keys() fails unless records[0] is a dict; r.get fails on
\* a record that is not a dict, and is called only when there is a header.
rows_exception(recs) ==
    CASE recs.t = "dict" -> "KeyError"
      [] recs.t = "int"  -> "TypeError"
      [] recs.t = "str"  -> "AttributeError"
      [] recs.t = "list" ->
            IF recs.items[1].t # "dict" THEN "AttributeError"
            ELSE IF /\ keys(recs.items[1]) # <<>>
                    /\ \E i \in 1..Len(recs.items) : recs.items[i].t # "dict"
                 THEN "AttributeError"
                 ELSE ""

\* yaml_to_markdown, lines 104-106: open(input_path, 'r') fails on a path that exists
\* (a directory, a file without read permission)
Y2M_ReadFails ==
    /\ pc = "y2m_read"
    /\ argv.input \in DOMAIN fs
    /\ log' = Append(log, Info("converting"))
    /\ opens' = Append(opens, Open(argv.input, "r", FALSE))
    /\ exc' = "OSError"
    /\ pc' = "y2m_except"
    /\ UNCHANGED <<argv, mode, output_file, fs, lines, records, rows, exit_code, source>>

\* yaml_to_markdown, lines 104-107: open the input and yaml.safe_load it
Y2M_Read ==
    /\ pc = "y2m_read"
    /\ log' = Append(log, Info("converting"))
    /\ IF argv.input \notin DOMAIN fs
       THEN /\ opens' = Append(opens, Open(argv.input, "r", FALSE))
            /\ exc' = "FileNotFoundError"
            /\ pc' = "y2m_except"
            /\ records' = records
       ELSE /\ opens' = Append(opens, Open(argv.input, "r", TRUE))
            /\ IF fs[argv.input].kind = "bad"
               THEN /\ exc' = "YAMLError"
                    /\ pc' = "y2m_except"
                    /\ records' = records
               ELSE /\ records' = fs[argv.input].data
                    /\ pc' = "y2m_empty"
                    /\ exc' = exc
    /\ UNCHANGED <<argv, mode, output_file, fs, lines, rows, exit_code, source>>

\* yaml_to_markdown, lines 109-111: `if not records`: warn and return
Y2M_Empty ==
    /\ pc = "y2m_empty"
    /\ IF ~truthy(records)
       THEN /\ log' = Append(log, LogEntry("WARNING", "empty_or_malformed", 0, 0, 0))
            /\ pc' = "done"
            /\ exit_code' = 0
       ELSE /\ pc' = "y2m_rows"
            /\ UNCHANGED <<log, exit_code>>
    /\ UNCHANGED <<argv, mode, output_file, fs, lines, records, rows, opens, exc, source>>

\* yaml_to_markdown, lines 113-114: headers from the first record, one row each
Y2M_Rows ==
    /\ pc = "y2m_rows"
    /\ IF rows_exception(records) # ""
       THEN /\ exc' = rows_exception(records)
            /\ pc' = "y2m_except"
            /\ rows' = rows
       ELSE /\ rows' = format_rows(keys(records.items[1]), records.items)
            /\ pc' = "y2m_dry"
            /\ exc' = exc
    /\ UNCHANGED <<argv, mode, output_file, fs, lines, records, log, opens, exit_code,
                   source>>

\* yaml_to_markdown, lines 116-118: the dry-run return
Y2M_DryRun ==
    /\ pc = "y2m_dry"
    /\ IF argv.dry_run
       THEN /\ log' = Append(log, Info("dry_run"))
            /\ pc' = "done"
            /\ exit_code' = 0
       ELSE /\ pc' = "y2m_write"
            /\ UNCHANGED <<log, exit_code>>
    /\ UNCHANGED <<argv, mode, output_file, fs, lines, records, rows, opens, exc, source>>

\* yaml_to_markdown, lines 120-126: open the output for writing, write the table
Y2M_Write ==
    /\ pc = "y2m_write"
    /\ opens' = Append(opens, Open(output_file, "w", TRUE))
    /\ fs' = (output_file :>
                TextFile(table_text(keys(records.items[1]), rows))) @@ fs
    /\ log' = Append(log, Info("wrote"))
    /\ pc' = "done"
    /\ exit_code' = 0
    /\ UNCHANGED <<argv, mode, output_file, lines, records, rows, exc, source>>

\* yaml_to_markdown, line 120: open(output_path, 'w') fails (unwritable path)
Y2M_WriteFails ==
    /\ pc = "y2m_write"
    /\ opens' = Append(opens, Open(output_file, "w", FALSE))
    /\ exc' = "OSError"
    /\ pc' = "y2m_except"
    /\ UNCHANGED <<argv, mode, output_file, fs, lines, records, rows, log, exit_code,
                   source>>

\* yaml_to_markdown, lines 127-129: log_exception, raise; the process dies non-zero
Y2M_Except ==
    /\ pc = "y2m_except"
    /\ log' = Append(log, LogEntry("ERROR", "failed_conversion", 0, 0, 0))
    /\ pc' = "raised"
    /\ exit_code' = 1
    /\ UNCHANGED <<argv, mode, output_file, fs, lines, records, rows, opens, exc, source>>

\* The table a run has just written is fed back: main() is invoked again with
\* --input <that table> and the default output (lines 184-186 of a new process)
Reinvoke ==
    /\ pc = "done"
    /\ mode = "to-md"
    /\ source = PyNone
    /\ opens # <<>>
    /\ opens[Len(opens)] = Open(output_file, "w", TRUE)
    /\ source' = records
    /\ argv' = [input |-> output_file, output |-> <<>>, format |-> argv.format,
                dry_run |-> FALSE]
    /\ pc' = "main"
    /\ mode' = ""
    /\ output_file' = <<>>
    /\ lines' = <<>>
    /\ records' = PyNone
    /\ rows' = <<>>
    /\ log' = <<>>
    /\ opens' = <<>>
    /\ exc' = ""
    /\ exit_code' = -1
    /\ fs' = fs

----------------------------------------------------------------------------
(* The inputs the initial states are drawn from.                           *)

MaxRows == 2
MaxRecords == 2

RECURSIVE SeqsUpTo(_, _)
\* every sequence over S of length at most n
SeqsUpTo(S, n) ==
    IF n = 0 THEN {<<>>}
    ELSE LET shorter == SeqsUpTo(S, n - 1)
         IN  shorter \cup {Append(q, x) : q \in {r \in shorter : Len(r) = n - 1}, x \in S}

\* input paths: a stem followed by an extension
Stems == { <<"r">>, <<"d", ".", "x", "/", "r">>, <<>>, <<"r", ".">> }
MarkdownExts ==
    { ExtMd, <<".", "M", "D">>, ExtMarkdown, <<".", "M", "A", "R", "K", "D", "O", "W", "N">> }
YamlExts == { ExtYml, ExtYaml, <<".", "Y", "A", "M", "L">>, <<".", "Y", "m", "l">> }
OtherExts ==
    { <<".", "t", "x", "t">>, <<>>, <<".", "m", "d", ".", "b">>, <<".", "j", "s", "o", "n">>,
      <<"m", "d">>, <<".", "T", "X", "T">>, <<".", "M", "D", "É">> }
Formats == { FormatYaml, FormatJson }
ExplicitOutputs == { <<>>, <<"o">> }

A == <<"A">>
B == <<"B">>
ListCell == <<"-", " ", "a", BS, "n", "-", " ", "b">>

\* a table line as a person types it: | c1 | c2 |
MdLine(cs) == RowOpen \o join(CellSep, cs) \o <<" ", PIPE>>

HeaderLines == { MdLine(<<A, B>>), MdLine(<<A>>), MdLine(<<A, A>>) }
SeparatorLine == <<PIPE, "-", PIPE, "-", PIPE>>
RowLines ==
    { MdLine(<<<<"a">>, <<"b">> >>),
      MdLine(<<<<"a">> >>),
      MdLine(<<<<"a">>, <<"b">>, <<"c">> >>),
      MdLine(<<ListCell, <<>> >>),
      <<"a", PIPE, "-", " ", "-", "b">>,
      MdLine(<<<<"-", " ", "a", BS, "n", BS, "n", " ", "-", " ", "b">>, <<" ">> >>) \o <<" ">>,
      MdLine(<<<<"a">>, <<"b">> >>) \o <<CR>>,
      <<PIPE, HT, "a", NBSP, PIPE, "-", " ", "a", BS, "n", HT, BS, "n", "-", " ", NBSP, "b", PIPE>>,
      <<HT, NBSP>> }

\* the text of a file holding these lines
FileText(ls) == join(<<>>, Map(ls, LAMBDA l : l \o <<NL>>))

Tables ==
    { FileText(<<h, SeparatorLine>> \o rs) : h \in HeaderLines, rs \in SeqsUpTo(RowLines, MaxRows) }
ShortTexts ==
    { <<>>, <<NL, " ", NL>>, FileText(<<MdLine(<<A, B>>)>>),
      MdLine(<<A, B>>) \o <<CR, NL, FF, NEL, CR, NL>> }

\* tables whose lines end in a bare carriage return
CrTexts ==
    { join(<<CR>>, <<MdLine(<<A, B>>), SeparatorLine, MdLine(<<<<"a">>, <<"b">> >>)>>),
      join(<<CR>>, <<MdLine(<<A, B>>), SeparatorLine>>) \o <<CR>> }

Rec1(a) == PyDict(<<[k |-> A, val |-> a]>>)
Rec2(a, b) == PyDict(<<[k |-> A, val |-> a], [k |-> B, val |-> b]>>)

FieldValues ==
    { PyStr(<<"a">>), PyStr(<<>>), PyStr(<<"-", " ", "a">>), PyStr(<<"x", NL, "y">>),
      PyStr(<<" ", "a">>), PyStr(<<"a", PIPE, "b">>), PyStr(<<"a", HT>>),
      PyList(<<PyStr(<<"a">>), PyStr(<<"b">>)>>), PyList(<<PyStr(<<"-", "a">>)>>),
      PyList(<<>>) }

Documents ==
    { PyList(rs) : rs \in SeqsUpTo({Rec1(a) : a \in FieldValues}, MaxRecords) \ {<<>>} }
    \cup { PyList(rs) :
             rs \in SeqsUpTo({Rec2(a, PyStr(<<"b">>)) : a \in FieldValues}, MaxRecords) \ {<<>>} }
    \cup { PyList(<<Rec2(PyStr(<<"a">>), PyStr(<<"b">>)), Rec1(PyList(<<PyStr(<<"a">>)>>))>>) }

\* what yaml.safe_load can return besides a list of dicts
OtherData ==
    { PyNone, PyList(<<>>), PyDict(<<>>), PyStr(<<>>), PyInt(<<"0">>),
      PyStr(<<"a">>), PyInt(<<"5">>), Rec1(PyStr(<<"a">>)),
      PyList(<<PyStr(<<"a">>)>>), PyList(<<Rec1(PyStr(<<"a">>)), PyStr(<<"x">>)>>),
      PyList(<<PyList(<<PyStr(<<"a">>)>>)>>),
      PyList(<<PyDict(<<>>)>>), PyList(<<PyDict(<<>>), PyStr(<<"x">>)>>),
      PyList(<<PyDict(<<>>), PyNone>>) }

\* one character inside a double-quoted YAML scalar: the characters YAML does
\* not accept as they are, or reads as a line break, are written as escapes
escaped(c) ==
    CASE c = BS -> <<BS, BS>>
      [] c = "\"" -> <<BS, "\"">>
      [] c = NL -> <<BS, "n">>
      [] c = HT -> <<BS, "t">>
      [] c = CR -> <<BS, "r">>
      [] c = FF -> <<BS, "f">>
      [] c = VT -> <<BS, "v">>
      [] c = FS -> <<BS, "x", "1", "C">>
      [] c = GS -> <<BS, "x", "1", "D">>
      [] c = RS -> <<BS, "x", "1", "E">>
      [] c = US -> <<BS, "x", "1", "F">>
      [] c = DEL -> <<BS, "x", "7", "F">>
      [] c = NEL -> <<BS, "N">>
      [] c \in Alphabet \ {BS, "\"", NL, HT, CR, FF, VT, FS, GS, RS, US, DEL, NEL} -> <<c>>

\* a string as a double-quoted YAML scalar
quoted(s) == <<"\"">> \o join(<<>>, Map(s, escaped)) \o <<"\"">>

RECURSIVE flow_text(_)
\* one text yaml.safe_load (line 107) reads as this value: the flow style on a
\* single line, every string double-quoted
flow_text(v) ==
    CASE v.t = "none" -> <<"n", "u", "l", "l">>
      [] v.t = "int"  -> v.s
      [] v.t = "str"  -> quoted(v.s)
      [] v.t = "list" ->
            <<"[">> \o join(<<",", " ">>, [i \in 1..Len(v.items) |-> flow_text(v.items[i])])
                \o <<"]">>
      [] v.t = "dict" ->
            <<"{">> \o join(<<",", " ">>,
                            [i \in 1..Len(v.items) |->
                                quoted(v.items[i].k) \o <<":", " ">>
                                    \o flow_text(v.items[i].val)])
                \o <<"}">>

\* no file at the input path
Absent == [kind |-> "absent"]
OldFile == TextFile(<<"o", "l", "d">>)

\* a file holding a YAML document: its text, and the value safe_load returns
YamlFile(data) == [kind |-> "yaml", text |-> flow_text(data) \o <<NL>>, data |-> data]

\* a file whose text is not YAML: safe_load raises
BadYamlFile == [kind |-> "bad", text |-> <<"[", NL>>]

\* paths that may hold an older file when the program starts
OldPaths == { <<"o">>, <<"r">> \o ExtYaml, <<"r">> \o <<".">> \o FormatJson, <<"r">> \o ExtMd }

\* the file system at start: the input (unless absent) and, when old, the old files
StartFs(input, content, old) ==
    LET others == IF old THEN OldPaths \ {input} ELSE {}
        olds == [p \in others |-> OldFile]
    IN  IF content = Absent THEN olds ELSE (input :> content) @@ olds

Start(input, output, format, dry_run, content, old) ==
    /\ pc = "main"
    /\ argv = [input |-> input, output |-> output, format |-> format, dry_run |-> dry_run]
    /\ mode = ""
    /\ output_file = <<>>
    /\ fs = StartFs(input, content, old)
    /\ lines = <<>>
    /\ records = PyNone
    /\ rows = <<>>
    /\ log = <<>>
    /\ opens = <<>>
    /\ exc = ""
    /\ exit_code = -1
    /\ source = PyNone

\* every path, every flag, a few contents
InitRouting ==
    \E stem \in Stems, ext \in MarkdownExts \cup YamlExts \cup OtherExts,
       output \in ExplicitOutputs, format \in Formats, dry_run \in BOOLEAN, old \in BOOLEAN :
       \E content \in
            IF ext \in MarkdownExts
            THEN {Absent, TextFile(FileText(<<MdLine(<<A, B>>), SeparatorLine,
                                             MdLine(<<<<"a">>, <<"b">> >>)>>))}
            ELSE {Absent, YamlFile(PyList(<<Rec1(PyStr(<<"a">>))>>))} :
          Start(stem \o ext, output, format, dry_run, content, old)

\* r.md holding every table
InitTables ==
    \E text \in Tables \cup ShortTexts \cup CrTexts, format \in Formats, dry_run \in BOOLEAN,
       old \in BOOLEAN :
       Start(<<"r">> \o ExtMd, <<>>, format, dry_run, TextFile(text), old)

\* r.yml holding every document and every other value
InitDocuments ==
    \E data \in {YamlFile(d) : d \in Documents \cup OtherData} \cup {BadYamlFile},
       dry_run \in BOOLEAN, old \in BOOLEAN :
       Start(<<"r">> \o ExtYml, <<>>, FormatYaml, dry_run, data, old)

Init == InitRouting \/ InitTables \/ InitDocuments

Next ==
    \/ Main_DetectMode
    \/ Main_Unsupported
    \/ Main_Output
    \/ M2Y_Read
    \/ M2Y_ReadFails
    \/ M2Y_Validate
    \/ M2Y_Parse
    \/ M2Y_DryRun
    \/ M2Y_Write
    \/ M2Y_WriteFails
    \/ M2Y_Except
    \/ Y2M_Read
    \/ Y2M_ReadFails
    \/ Y2M_Empty
    \/ Y2M_Rows
    \/ Y2M_DryRun
    \/ Y2M_Write
    \/ Y2M_WriteFails
    \/ Y2M_Except
    \/ Reinvoke

Spec == Init /\ [][Next]_vars

----------------------------------------------------------------------------
(* Properties.                                                             *)

Terminal == {"done", "raised", "exited"}

\* the run wrote its output file
Wrote == opens # <<>> /\ opens[Len(opens)] = Open(output_file, "w", TRUE)

\* markdown_to_yaml has built its record list in this run
Parsed == mode = "to-yaml" /\ records.t = "list"

IsStrValue(v) == v.t = "str"
IsStrList(v) == v.t = "list" /\ \A i \in 1..Len(v.items) : v.items[i].t = "str"

\* a non-empty list of records sharing one header of at least one field,
\* values strings or lists of strings
IsDocument(v) ==
    /\ v.t = "list"
    /\ v.items # <<>>
    /\ v.items[1].t = "dict"
    /\ keys(v.items[1]) # <<>>
    /\ \A i \in 1..Len(v.items) :
          /\ v.items[i].t = "dict"
          /\ keys(v.items[i]) = keys(v.items[1])
          /\ \A j \in 1..Len(v.items[i].items) :
                IsStrValue(v.items[i].items[j].val) \/ IsStrList(v.items[i].items[j].val)

NoBulletScalar(v) ==
    \A i \in 1..Len(v.items) : \A j \in 1..Len(v.items[i].items) :
        LET x == v.items[i].items[j].val
        IN  x.t = "str" => ~startswith(x.s, Bullet)

\* C1: a Document written as a table and parsed back is the same Document:
\* same field names, same values (scalars scalars, lists lists), same row order.
C1_RoundTrip ==
    (source # PyNone /\ IsDocument(source) /\ NoBulletScalar(source) /\ pc = "done")
        => (records = source /\ Wrote /\ fs[output_file].data = source)

Count(s, c) == Cardinality({i \in 1..Len(s) : s[i] = c})

RECURSIVE TextLines(_)
\* a text cut at its line ends: a line feed or a carriage return
TextLines(text) ==
    IF \E i \in 1..Len(text) : text[i] \in {NL, CR}
    THEN LET i == CHOOSE k \in 1..Len(text) :
                    text[k] \in {NL, CR} /\ \A j \in 1..(k - 1) : text[j] \notin {NL, CR}
         IN  <<SubSeq(text, 1, i - 1)>> \o TextLines(SubSeq(text, i + 1, Len(text)))
    ELSE <<text>>

\* the lines of a text that hold something other than whitespace
NonBlankLines(text) ==
    SelectSeq(TextLines(text), LAMBDA l : \E i \in 1..Len(l) : l[i] \notin Whitespace)

\* the cells of a line: one more than the pipes between its outer pipes
CellCount(line) == Count(strip(strip(line, Whitespace), {PIPE}), PIPE) + 1

WellFormed(text) ==
    LET ls == NonBlankLines(text)
    IN  /\ Len(ls) >= 3
        /\ \A k \in 3..Len(ls) : CellCount(ls[k]) = CellCount(ls[1])

\* C3: (a) the table written for a Document has one data-row line per record
\* after the header and separator lines; (b) a well-formed table parses to as
\* many records as it has non-empty lines after the header and separator.
C3_RowCount ==
    /\ (pc = "done" /\ mode = "to-md" /\ Wrote /\ IsDocument(records))
          => Count(fs[output_file].text, NL) - 2 = Len(records.items)
    /\ (Parsed /\ WellFormed(fs[argv.input].text))
          => Len(records.items) = Len(NonBlankLines(fs[argv.input].text)) - 2

IsSeqOfMappings(v) ==
    v.t = "list" /\ \A i \in 1..Len(v.items) : v.items[i].t = "dict"

HasLog(level, msg) == \E i \in 1..Len(log) : log[i].level = level /\ log[i].msg = msg

\* C9: structured input that is empty or not a sequence of mappings makes
\* yaml_to_markdown log a warning, treat it as zero records and return
\* without raising.
C9_SoftMalformed ==
    (/\ mode = "to-md"
     /\ pc \in Terminal
     /\ opens # <<>>
     /\ opens[1] = Open(argv.input, "r", TRUE)
     /\ fs[argv.input].kind = "yaml"
     /\ (~truthy(fs[argv.input].data) \/ ~IsSeqOfMappings(fs[argv.input].data)))
        => (/\ pc = "done"
            /\ exc = ""
            /\ exit_code = 0
            /\ HasLog("WARNING", "empty_or_malformed")
            /\ ~Wrote)

\* the decoding the cell grammar describes: split on the escaped newline, drop
\* blank pieces, remove one leading bullet marker and the surrounding whitespace
decode_item(piece) ==
    LET t == strip(piece, Whitespace)
    IN  strip(IF startswith(t, Bullet) THEN SubSeq(t, 3, Len(t)) ELSE t, Whitespace)

decode_cell(c) ==
    IF startswith(c, Bullet)
    THEN PyList(Map(SelectSeq(split(c, EscapedNewline),
                              LAMBDA piece : strip(piece, Whitespace) # <<>>),
                    LAMBDA piece : PyStr(decode_item(piece))))
    ELSE PyStr(c)

\* the trimmed cells of a line, cut at the pipes
TrimmedCells(line) ==
    Map(split(strip(line, {PIPE}), <<PIPE>>), LAMBDA c : strip(c, Whitespace))

\* the last position up to n that carries the same header name as position j
LastSame(hs, j, n) == CHOOSE i \in j..n : hs[i] = hs[j] /\ \A m \in (i + 1)..n : hs[m] # hs[j]

\* C10: every parsed field holds its cell decoded: the cell itself unless it
\* begins with the bullet marker, else its escaped-newline pieces with only the
\* leading marker and surrounding whitespace removed, empty pieces dropped.
C10_CellDecoding ==
    Parsed =>
        \A k \in 1..Len(records.items) :
            LET hs == TrimmedCells(lines[1])
                cs == TrimmedCells(lines[k + 2])
                n == Min(Len(hs), Len(cs))
            IN  \A j \in 1..n :
                    dict_get(records.items[k], hs[j], PyNone) = decode_cell(cs[LastSame(hs, j, n)])

\* every open() so far was for reading
NoWriteOpen(os) == \A i \in 1..Len(os) : os[i].how # "w"

\* C2: with dry_run set, in both directions, no step opens a file for writing
\* and no step changes the file system, whether the call returns or fails.
C2_DryRunNoWrite ==
    [][argv.dry_run => (fs' = fs /\ NoWriteOpen(opens'))]_vars

\* a dry run has parsed a table and returned while an older output file exists
C2_Witness ==
    /\ argv.dry_run
    /\ pc = "done"
    /\ Parsed
    /\ records.items # <<>>
    /\ output_file \in DOMAIN fs
    /\ fs[output_file] = OldFile

Warnings == SelectSeq(log, LAMBDA e : e.level = "WARNING")

\* the data rows whose cell count differs from the header's
Mismatched(ls) == {k \in 1..(Len(ls) - 2) : CellCount(ls[k + 2]) # CellCount(ls[1])}

\* C4: a row whose cell count differs from the header's never aborts parsing;
\* each data row yields one record whose keys are the first min(cells, header
\* length) header names paired positionally; one warning per mismatched row
\* and none for matching rows, each citing the row's 1-based line number.
C4_MalformedRows ==
    /\ (mode = "to-yaml" /\ Len(lines) >= 3 /\ pc \in Terminal) => Parsed
    /\ Parsed =>
        /\ Len(records.items) = Len(lines) - 2
        /\ \A k \in 1..Len(records.items) :
            LET hs == TrimmedCells(lines[1])
                cs == TrimmedCells(lines[k + 2])
                n == Min(CellCount(lines[1]), CellCount(lines[k + 2]))
                ks == keys(records.items[k])
            IN  /\ {ks[i] : i \in 1..Len(ks)} = {hs[j] : j \in 1..n}
                /\ Len(ks) = Cardinality({hs[j] : j \in 1..n})
                /\ \A j \in 1..n :
                      dict_get(records.items[k], hs[j], PyNone)
                          = parse_markdown_field(cs[LastSame(hs, j, n)])
        /\ Len(Warnings) = Cardinality(Mismatched(lines))
        /\ {Warnings[i].row : i \in 1..Len(Warnings)} = {k + 2 : k \in Mismatched(lines)}
        /\ \A i \in 1..Len(Warnings) :
              /\ Warnings[i].got = CellCount(lines[Warnings[i].row])
              /\ Warnings[i].expected = CellCount(lines[1])

\* a table with a short row and a long row was parsed to the end
C4_Witness ==
    /\ Parsed
    /\ pc = "done"
    /\ \E k \in Mismatched(lines) : CellCount(lines[k + 2]) < CellCount(lines[1])
    /\ \E k \in Mismatched(lines) : CellCount(lines[k + 2]) > CellCount(lines[1])
    /\ Len(records.items) = 2

endswith(s, suffix) ==
    Len(s) >= Len(suffix) /\ SubSeq(s, Len(s) - Len(suffix) + 1, Len(s)) = suffix

DropLast(s, n) == SubSeq(s, 1, Len(s) - n)

\* the path names a file with this extension: some non-dot character of the
\* last path component comes before it
NamedWith(path, ext) ==
    /\ endswith(path, ext)
    /\ LET base == DropLast(path, Len(ext))
       IN  \E i \in (rfind(base, "/") + 1)..Len(base) : base[i] # "."

\* main() is past detect_mode and the choice of the output path
Decided == pc \notin {"main", "main_output"}

\* the default output of an input with extension ext is its base plus target
DefaultIs(ext, target) ==
    (Decided /\ argv.output = <<>> /\ NamedWith(argv.input, ext))
        => (pc # "exited" /\ output_file = DropLast(argv.input, Len(ext)) \o target)

\* C5 as stated: without --output, report.md gets report.yml for --format yaml
\* and report.json for json; report.yaml gets report.md.
C5_DefaultOutput_Stated ==
    /\ \A ext \in {ExtMd, ExtMarkdown} :
          DefaultIs(ext, IF argv.format = FormatYaml THEN ExtYml ELSE <<".">> \o FormatJson)
    /\ \A ext \in {ExtYml, ExtYaml} : DefaultIs(ext, ExtMd)

\* C5 amended: without --output, report.md gets report.yaml for --format yaml
\* (the format name is the extension) and report.json for json; report.yaml
\* and report.yml get report.md.
C5_DefaultOutput ==
    /\ \A ext \in {ExtMd, ExtMarkdown} : DefaultIs(ext, <<".">> \o argv.format)
    /\ \A ext \in {ExtYml, ExtYaml} : DefaultIs(ext, ExtMd)

\* d.x/r.markdown with --format yaml and no --output got d.x/r.yaml
C5_Witness ==
    /\ Decided
    /\ argv.output = <<>>
    /\ argv.format = FormatYaml
    /\ argv.input = <<"d", ".", "x", "/", "r">> \o ExtMarkdown
    /\ output_file = <<"d", ".", "x", "/", "r">> \o ExtYaml

\* C6: the extension is compared case-insensitively: .md/.markdown selects
\* table-to-structured, .yml/.yaml structured-to-table; any other extension
\* exits non-zero with no file opened for reading or writing.
C6_Routing ==
    pc # "main" =>
        LET ext == lower(splitext(argv.input)[2])
        IN  /\ ext \in {ExtMd, ExtMarkdown} => (mode = "to-yaml" /\ pc # "exited")
            /\ ext \in {ExtYml, ExtYaml} => (mode = "to-md" /\ pc # "exited")
            /\ ext \notin {ExtMd, ExtMarkdown, ExtYml, ExtYaml} =>
                  (pc = "exited" /\ exit_code > 0 /\ opens = <<>>)
            /\ pc = "exited" => (opens = <<>> /\ exit_code > 0)

\* an existing input with an unsupported extension: exited, never opened
C6_Witness ==
    /\ pc = "exited"
    /\ exit_code = 1
    /\ argv.input \in DOMAIN fs
    /\ opens = <<>>
    /\ HasLog("ERROR", "unsupported_extension")

\* markdown_to_yaml has read an input with n non-blank lines and has ended
EndedOnLines(n) ==
    /\ mode = "to-yaml"
    /\ pc \in Terminal
    /\ opens # <<>>
    /\ opens[1] = Open(argv.input, "r", TRUE)
    /\ Len(NonBlankLines(fs[argv.input].text)) = n

\* C7 as stated: a table too short to hold a header and a separator makes
\* markdown_to_yaml fail with an error propagated to the caller (non-zero
\* exit), and no output is written.
C7_TooShortFatal_Stated ==
    \A n \in 0..1 :
        EndedOnLines(n) => (pc = "raised" /\ exit_code > 0 /\ NoWriteOpen(opens))

\* C7 amended: on such a table markdown_to_yaml logs an error and returns
\* normally: no exception, exit status zero, no record built, no output written.
C7_TooShortReturns ==
    \A n \in 0..1 :
        EndedOnLines(n) =>
            /\ pc = "done"
            /\ exc = ""
            /\ exit_code = 0
            /\ HasLog("ERROR", "too_short")
            /\ records = PyNone
            /\ NoWriteOpen(opens)

\* a real run on a file holding only a header line has returned
C7_Witness ==
    /\ EndedOnLines(1)
    /\ ~argv.dry_run
    /\ pc = "done"

\* C8 as stated: exactly a header and a separator is accepted by validation,
\* parses to zero records, and the conversion goes on with that empty list.
C8_ZeroRows_Stated ==
    EndedOnLines(2) =>
        /\ ~HasLog("ERROR", "too_short")
        /\ records = PyList(<<>>)
        /\ (pc = "done" /\ ~argv.dry_run) => (Wrote /\ fs[output_file].data = PyList(<<>>))

\* C8 amended: exactly a header and a separator is rejected by validation as
\* too short: an error is logged, no record list is built, nothing is written,
\* and markdown_to_yaml returns normally.
C8_ZeroRowsRejected ==
    EndedOnLines(2) =>
        /\ HasLog("ERROR", "too_short")
        /\ records = PyNone
        /\ NoWriteOpen(opens)
        /\ pc = "done"
        /\ exit_code = 0

\* a real run on a header and a separator alone has returned
C8_Witness ==
    /\ EndedOnLines(2)
    /\ Len(lines) = 2
    /\ ~argv.dry_run
    /\ pc = "done"

====
